---- MODULE Spec2Model ----
(***************************************************************************)
(* A model of thumbservice/common.py: the Settings resolver, the brightness *)
(* scaler planet_image_data, the peak finder rebin / find_planet and the    *)
(* thumbnail writer planet_image_to_jpg.                                    *)
(*                                                                          *)
(* Python strings are sequences of one-character strings, so that lower(),  *)
(* strip(), replace(), split() and os.path.join() are computed character by *)
(* character.  The multipliers 1.1, 1.4, 0.5, ... are kept in tenths.       *)
(* An array is its shape and the finite map of the pixels written down,     *)
(* every other pixel being 0.  Means are compared exactly (as sums over     *)
(* blocks of equal size) and square roots are taken of perfect squares; the *)
(* rounding of floating point is outside the model.  Of PIL images the mode,*)
(* the size and the origin of each band are kept, not the resampled pixels. *)
(* get_temp_filename_prefix is not modelled.                                *)
(***************************************************************************)
EXTENDS Integers, Sequences, FiniteSets, TLC

VARIABLES
    settings_arg,   \* Settings(settings=...): the override mapping
    environ,        \* os.environ
    settings,       \* the attributes of the Settings object, <<>> before __init__
    hdul,           \* planet_image_data: the 'sci' extension, header and data
    colour,         \* planet_image_data: the colour argument
    vals,           \* planet_image_data: what it returns
    data,           \* find_planet: the frame it is given
    cropped,        \* find_planet: what it returns
    filenames,      \* planet_image_to_jpg: the files behind the filename list
    params,         \* planet_image_to_jpg: height and width
    pc,             \* planet_image_to_jpg: position in the function body
    zoom,           \* planet_image_to_jpg: local zoom
    stack,          \* planet_image_to_jpg: local stack
    img,            \* planet_image_to_jpg: local img
    error,          \* planet_image_to_jpg: the exception that ended the call
    output_path     \* the file at output_path

vars == <<settings_arg, environ, settings, hdul, colour, vals, data, cropped,
          filenames, params, pc, zoom, stack, img, error, output_path>>

settingsVars == <<settings_arg, environ, settings>>
scaleVars == <<hdul, colour, vals>>
findVars == <<data, cropped>>
jpgVars == <<filenames, params, pc, zoom, stack, img, error, output_path>>

(***************************************************************************)
(* Bounds of the model.                                                     *)
(***************************************************************************)
MaxPathLen == 3
MaxListLen == 3
MaxOverrideLen == 1

Max(S) == CHOOSE x \in S : \A y \in S : y <= x
Min(S) == CHOOSE x \in S : \A y \in S : x <= y

\* All sequences over alphabet A of length at most n.
StringsUpTo(A, n) == UNION {[1..k -> A] : k \in 0..n}

(***************************************************************************)
(* Python values: str, None and tuple of str.                               *)
(***************************************************************************)
Str(s) == [t |-> "str", v |-> s]
None == [t |-> "NoneType", v |-> <<>>]
Tuple(es) == [t |-> "tuple", v |-> es]
Same(x, y) == x.t = y.t /\ x.v = y.v

(***************************************************************************)
(* str methods.                                                             *)
(***************************************************************************)
UpperCase == <<"A", "B", "C", "D", "E", "F", "G", "H", "I", "J", "K", "L", "M",
               "N", "O", "P", "Q", "R", "S", "T", "U", "V", "W", "X", "Y", "Z">>
LowerCase == <<"a", "b", "c", "d", "e", "f", "g", "h", "i", "j", "k", "l", "m",
               "n", "o", "p", "q", "r", "s", "t", "u", "v", "w", "x", "y", "z">>

LowerChar(c) ==
    IF \E i \in 1..Len(UpperCase) : UpperCase[i] = c
    THEN LowerCase[CHOOSE i \in 1..Len(UpperCase) : UpperCase[i] = c]
    ELSE c

\* str.lower()
lower(s) == [i \in 1..Len(s) |-> LowerChar(s[i])]

\* str.strip(','): what lies between the first and the last character that
\* is not a comma, both included; '' when there is none.
strip_comma(s) ==
    LET keep == {i \in 1..Len(s) : s[i] # ","}
    IN  IF keep = {} THEN <<>> ELSE SubSeq(s, Min(keep), Max(keep))

\* str.replace(' ', ''): every occurrence of the one character ' ' is dropped.
replace_space(s) == SelectSeq(s, LAMBDA c : c # " ")

\* str.split(','): the pieces between the commas, one more than there are
\* commas; '' splits to [''].
split_comma(s) ==
    LET commas == {i \in 1..Len(s) : s[i] = ","}
        \* the position of the j-th comma; 0 and Len(s) + 1 close the ends
        cut(j) == IF j = 0 THEN 0
                  ELSE IF j > Cardinality(commas) THEN Len(s) + 1
                  ELSE CHOOSE i \in commas : Cardinality({c \in commas : c <= i}) = j
    IN  [j \in 1..(Cardinality(commas) + 1) |-> SubSeq(s, cut(j - 1) + 1, cut(j) - 1)]

\* posixpath.join(a, ''): b = '' never starts with the separator; it is
\* appended directly when a is empty or ends with '/', after a '/' otherwise.
path_join_empty(a) ==
    IF a = <<>> \/ a[Len(a)] = "/" THEN a \o <<>> ELSE a \o <<"/">> \o <<>>

(***************************************************************************)
(* class Settings                                                           *)
(***************************************************************************)
PathKeys == {"ARCHIVE_API_URL", "TMP_DIR"}
PlainKeys == {"AWS_BUCKET", "AWS_ACCESS_KEY_ID", "AWS_SECRET_ACCESS_KEY",
              "AWS_DEFAULT_REGION", "STORAGE_URL"}
ListKeys == {"REQUIRED_FRAME_VALIDATION_KEYS", "VALID_CONFIGURATION_TYPES",
             "VALID_CONFIGURATION_TYPES_FOR_COLOR_THUMBS"}
Keys == PathKeys \cup PlainKeys \cup ListKeys

changeme == <<"c", "h", "a", "n", "g", "e", "m", "e">>

\* The second argument of each set_value / get_tuple_from_environment call.
Default(key) ==
    CASE key = "ARCHIVE_API_URL" ->
           Str(<<"h", "t", "t", "p", ":", "/", "/", "l", "o", "c", "a", "l", "h",
                 "o", "s", "t", "/">>)
      [] key = "TMP_DIR" -> Str(<<"/", "t", "m", "p", "/">>)
      [] key = "AWS_BUCKET" -> Str(changeme)
      [] key = "AWS_ACCESS_KEY_ID" -> Str(changeme)
      [] key = "AWS_SECRET_ACCESS_KEY" -> Str(changeme)
      [] key = "AWS_DEFAULT_REGION" ->
           Str(<<"u", "s", "-", "w", "e", "s", "t", "-", "2">>)
      [] key = "STORAGE_URL" -> None
      [] key = "REQUIRED_FRAME_VALIDATION_KEYS" ->
           Str(<<"c", "o", "n", "f", "i", "g", "u", "r", "a", "t", "i", "o", "n",
                 "_", "t", "y", "p", "e", ",", "r", "e", "q", "u", "e", "s", "t",
                 "_", "i", "d", ",", "f", "i", "l", "e", "n", "a", "m", "e">>)
      [] key = "VALID_CONFIGURATION_TYPES" ->
           Str(<<"A", "R", "C", ",", "B", "I", "A", "S", ",", "B", "P", "M", ",",
                 "D", "A", "R", "K", ",", "D", "O", "U", "B", "L", "E", ",", "E",
                 "X", "P", "E", "R", "I", "M", "E", "N", "T", "A", "L", ",", "E",
                 "X", "P", "O", "S", "E", ",", "G", "U", "I", "D", "E", ",", "L",
                 "A", "M", "P", "F", "L", "A", "T", ",", "S", "K", "Y", "F", "L",
                 "A", "T", ",", "S", "P", "E", "C", "T", "R", "U", "M", ",", "S",
                 "T", "A", "N", "D", "A", "R", "D", ",", "T", "A", "R", "G", "E",
                 "T", ",", "T", "R", "A", "I", "L", "E", "D">>)
      [] key = "VALID_CONFIGURATION_TYPES_FOR_COLOR_THUMBS" ->
           Str(<<"E", "X", "P", "O", "S", "E", ",", "S", "T", "A", "N", "D", "A",
                 "R", "D">>)

\* os.getenv(name, default)
getenv(env, name, default) == IF name \in DOMAIN env THEN env[name] ELSE default

\* Settings.end_with_slash
end_with_slash(path) == Str(path_join_empty(path.v))

\* Settings.set_value
set_value(overrides, env, env_var, default, must_end_with_slash) ==
    LET value == IF env_var \in DOMAIN overrides
                 THEN overrides[env_var]
                 ELSE getenv(env, env_var, default)
    IN  IF must_end_with_slash THEN end_with_slash(value) ELSE value

\* str.replace(' ', '') with every whitespace character dropped instead.
replace_whitespace(s) == SelectSeq(s, LAMBDA c : c \notin {" ", "\t", "\n"})

get_tuple_all_whitespace(env, variable_name, default) ==
    Tuple(split_comma(replace_whitespace(strip_comma(
        getenv(env, variable_name, default).v))))

\* Settings.get_tuple_from_environment
get_tuple_from_environment(env, variable_name, default) ==
    Tuple(split_comma(replace_space(strip_comma(
        getenv(env, variable_name, default).v))))

\* Settings.__init__: the ten attributes, from settings_arg or {} when it is None.
Settings(overrides, env) ==
    [key \in Keys |->
        IF key \in PathKeys THEN set_value(overrides, env, key, Default(key), TRUE)
        ELSE IF key \in PlainKeys THEN set_value(overrides, env, key, Default(key), FALSE)
        ELSE get_tuple_from_environment(env, key, Default(key))]

\* The strings an override or an environment variable is drawn from.
PathStrings == StringsUpTo({"a", "/"}, MaxPathLen)
PlainStrings == {<<>>, <<"x">>}
ListStrings == StringsUpTo({"A", ",", " ", "\t", "\n"}, MaxListLen)

\* What a mapping holds for a key: nothing, or one of the strings.
Unset == [set |-> FALSE, v |-> <<>>]
Options(strings) == {Unset} \cup {[set |-> TRUE, v |-> s] : s \in strings}
PathOptions == Options(PathStrings)
PlainOptions == Options(PlainStrings)
ListOptions == Options(ListStrings)
ListOverrideOptions == Options({s \in ListStrings : Len(s) <= MaxOverrideLen})

EnvOptions(key) ==
    IF key \in PathKeys THEN PathOptions
    ELSE IF key \in PlainKeys THEN PlainOptions
    ELSE ListOptions

OverrideOptions(key) ==
    IF key \in ListKeys THEN ListOverrideOptions ELSE EnvOptions(key)

\* A mapping that sets at most the one key.
Mapping(key, option) ==
    IF option.set THEN [k \in {key} |-> Str(option.v)] ELSE <<>>

ConstructedSettings == DOMAIN settings # {}

SettingsIdle ==
    /\ settings_arg = <<>>
    /\ environ = <<>>
    /\ settings = <<>>

SettingsInputs ==
    /\ \E key \in Keys :
         /\ \E option \in OverrideOptions(key) : settings_arg = Mapping(key, option)
         /\ \E option \in EnvOptions(key) : environ = Mapping(key, option)
    /\ settings = <<>>

\* settings = Settings() at import, or Settings(settings_arg) by a caller.
SettingsNew ==
    /\ ~ConstructedSettings
    /\ settings' = Settings(settings_arg, environ)
    /\ UNCHANGED <<settings_arg, environ>>
    /\ UNCHANGED <<scaleVars, findVars, jpgVars>>

(***************************************************************************)
(* Arrays.  A frame is a 2D array: its shape, the map px of the pixels that  *)
(* are written down (every other pixel is 0), and a common positive factor   *)
(* num/den: the value of pixel p is px[p] * num / den.                       *)
(***************************************************************************)
Frame(rows, cols, px) == [rows |-> rows, cols |-> cols, px |-> px, num |-> 1, den |-> 1]

PixelAt(f, r, c) == IF <<r, c>> \in DOMAIN f.px THEN f.px[<<r, c>>] ELSE 0

Shape(f) == <<f.rows, f.cols>>

\* The values the array holds, in units of num/den.
PixelValues(f) ==
    {f.px[p] : p \in DOMAIN f.px}
        \cup (IF Cardinality(DOMAIN f.px) < f.rows * f.cols THEN {0} ELSE {})

\* math.sqrt on the perfect squares the frames of the model hold.
Sqrt(v) == CHOOSE s \in 0..v : s * s = v

(***************************************************************************)
(* planet_image_data                                                        *)
(***************************************************************************)
cutoff == 200

saturn == <<"s", "a", "t", "u", "r", "n">>
jupiter == <<"j", "u", "p", "i", "t", "e", "r">>
mars == <<"m", "a", "r", "s">>
uranus == <<"u", "r", "a", "n", "u", "s">>
h_alpha == <<"h", "-", "a", "l", "p", "h", "a">>

\* The uranus branch without its reset of n.
multipliers_keep_gain(header, col) ==
    LET n1 == IF col /\ (lower(header.FILTER) = h_alpha \/ header.FILTER = <<"V">>)
              THEN 11 ELSE 10
    IN  IF lower(header.object) = saturn THEN [planet |-> 50, n |-> n1]
        ELSE IF lower(header.object) = jupiter THEN [planet |-> 14, n |-> n1]
        ELSE IF lower(header.object) = mars THEN [planet |-> 50, n |-> n1]
        ELSE IF lower(header.object) = uranus
             THEN [planet |-> 5, n |-> IF header.FILTER = <<"B">> THEN 15 ELSE n1]
        ELSE [planet |-> 10, n |-> n1]

\* The locals planet and n when line 67 is reached, in tenths.
multipliers(header, col) ==
    LET n0 == 10
        n1 == IF col /\ (lower(header.FILTER) = h_alpha \/ header.FILTER = <<"V">>)
              THEN 11 ELSE n0
    IN  IF lower(header.object) = saturn THEN [planet |-> 50, n |-> n1]
        ELSE IF lower(header.object) = jupiter THEN [planet |-> 14, n |-> n1]
        ELSE IF lower(header.object) = mars THEN [planet |-> 50, n |-> n1]
        ELSE IF lower(header.object) = uranus
             THEN LET n2 == 10
                  IN  [planet |-> 5, n |-> IF header.FILTER = <<"B">> THEN 15 ELSE n2]
        ELSE [planet |-> 10, n |-> n1]

\* img[img<cutoff] = 0
suppress_background(image) ==
    [image EXCEPT !.px = [p \in DOMAIN image.px |->
                             IF image.px[p] < cutoff THEN 0 ELSE image.px[p]]]

\* planet_image_data(filename, colour) on the opened file h.  The returned
\* array is planet*n*sqrt(img): px holds it in hundredths (num/den = 1/100),
\* and when its maximum is above 255 it is divided by the maximum and
\* multiplied by 255 (num/den = 255/max).
planet_image_data(h, col) ==
    LET image == suppress_background(h.img)
        m == multipliers(h, col)
        scaled == [image EXCEPT !.px = [p \in DOMAIN image.px |->
                                           m.planet * m.n * Sqrt(image.px[p])],
                                !.num = 1, !.den = 100]
        top == Max(PixelValues(scaled))
    IN  [status |-> "ok", planet |-> m.planet, n |-> m.n,
         frame |-> IF top > 255 * 100
                   THEN [scaled EXCEPT !.num = 255, !.den = top]
                   ELSE scaled]

Objects == {saturn, <<"S", "A", "T", "U", "R", "N">>, <<"S", "a", "t", "u", "r", "n">>,
            jupiter, <<"J", "U", "P", "I", "T", "E", "R">>,
            mars, <<"M", "a", "r", "s">>,
            uranus, <<"U", "R", "A", "N", "U", "S">>, <<"U", "r", "a", "n", "u", "s">>,
            <<"v", "e", "n", "u", "s">>, <<"M", "4", "2">>, <<>>}

Filters == {<<"V">>, <<"v">>, <<"B">>, <<"b">>, <<"R">>, <<"r", "p">>,
            h_alpha, <<"H", "-", "A", "l", "p", "h", "a">>,
            <<"H", "-", "A", "L", "P", "H", "A">>, <<>>}

\* Detector counts: below the cutoff, at it, and squares above it.
RawValues == {0, 196, 225, 10000, 40000}

ScaleFrames ==
    {Frame(1, 2, px) : px \in [{<<0, 0>>, <<0, 1>>} -> RawValues]}

NoResult == [status |-> "pending"]

ScaleIdle ==
    /\ hdul = [object |-> <<>>, FILTER |-> <<>>, img |-> Frame(1, 1, <<>>)]
    /\ colour = FALSE
    /\ vals = NoResult

ScaleInputs ==
    /\ hdul \in [object : Objects, FILTER : Filters, img : ScaleFrames]
    /\ colour \in BOOLEAN
    /\ vals = NoResult

PlanetImageData ==
    /\ vals.status = "pending"
    /\ vals' = planet_image_data(hdul, colour)
    /\ UNCHANGED <<hdul, colour>>
    /\ UNCHANGED <<settingsVars, findVars, jpgVars>>

(***************************************************************************)
(* rebin and find_planet                                                    *)
(***************************************************************************)
binning == 3
half_window == 300

MaxSmallDim == 6

RECURSIVE SumTo(_, _)
\* f[0] + ... + f[n-1]
SumTo(f, n) == IF n = 0 THEN 0 ELSE f[n - 1] + SumTo(f, n - 1)

\* rebin(arr, binning).  new_shape holds the floors of the quotients; the
\* divisions arr.shape // new_shape raise ZeroDivisionError on a zero; reshape
\* raises ValueError unless the sizes agree.  Element [i, b, j, d] of the
\* reshaped array is element ((i*k0 + b)*n1 + j)*k1 + d, in row-major order,
\* of arr[0:xlim, 0:ylim]; .mean(-1).mean(1) averages over d and then over b.
\* a[i*n1 + j] is the sum over the block, k0*k1*den/num times that mean.
rebin(arr, bin) ==
    LET xlim == arr.rows - (arr.rows % bin)
        ylim == arr.cols - (arr.cols % bin)
        n0 == arr.rows \div bin
        n1 == arr.cols \div bin
    IN  IF n0 = 0 \/ n1 = 0 THEN [status |-> "ZeroDivisionError"]
        ELSE LET k0 == arr.rows \div n0
                 k1 == arr.cols \div n1
                 at(i, b, j, d) ==
                     LET flat == (((i * k0 + b) * n1 + j) * k1) + d
                     IN  PixelAt(arr, flat \div ylim, flat % ylim)
             IN  IF n0 * k0 * n1 * k1 # xlim * ylim THEN [status |-> "ValueError"]
                 ELSE [status |-> "ok", shape |-> <<n0, n1>>,
                       a |-> [e \in 0..(n0 * n1 - 1) |->
                                SumTo([t \in 0..(k0 * k1 - 1) |->
                                         at(e \div n1, t \div k1, e % n1, t % k1)],
                                      k0 * k1)]]

\* np.argmax: the first index, in row-major order, of the greatest element.
argmax(a) ==
    LET top == Max({a[e] : e \in DOMAIN a})
    IN  Min({e \in DOMAIN a : a[e] = top})

\* np.unravel_index(index, shape) of a 2D shape
unravel_index(index, shape) == <<index \div shape[2], index % shape[2]>>

\* A slice bound where a negative k is clamped to 0 instead of counting from
\* the end.
slice_bound_no_wrap(k, len) ==
    IF k < 0 THEN 0
    ELSE IF k > len THEN len ELSE k

\* A slice bound k of a[k:...] or a[...:k] on an axis of length len: a negative
\* bound counts from the end, and the result is clamped to 0..len.
slice_bound(k, len) ==
    IF k < 0 THEN (IF k + len < 0 THEN 0 ELSE k + len)
    ELSE IF k > len THEN len ELSE k

\* arr[x1:x2, y1:y2]
slice_2d(arr, x1, x2, y1, y2) ==
    LET r1 == slice_bound(x1, arr.rows)
        r2 == slice_bound(x2, arr.rows)
        c1 == slice_bound(y1, arr.cols)
        c2 == slice_bound(y2, arr.cols)
        kept == {p \in DOMAIN arr.px : r1 <= p[1] /\ p[1] < r2 /\ c1 <= p[2] /\ p[2] < c2}
    IN  [rows |-> IF r2 > r1 THEN r2 - r1 ELSE 0,
         cols |-> IF c2 > c1 THEN c2 - c1 ELSE 0,
         px |-> [q \in {<<p[1] - r1, p[2] - c1>> : p \in kept} |->
                    arr.px[<<q[1] + r1, q[2] + c1>>]],
         num |-> arr.num, den |-> arr.den,
         first_row |-> r1, first_col |-> c1]

\* find_planet(data): the window, with the peak it was cut around.
find_planet(d) ==
    LET rebinned == rebin(d, binning)
    IN  IF rebinned.status # "ok" THEN [status |-> rebinned.status]
        ELSE LET max_coord == unravel_index(argmax(rebinned.a), rebinned.shape)
                 x1 == binning * max_coord[1] - half_window
                 x2 == binning * max_coord[1] + half_window
                 y1 == binning * max_coord[2] - half_window
                 y2 == binning * max_coord[2] + half_window
             IN  [status |-> "ok", max_coord |-> max_coord,
                  frame |-> slice_2d(d, x1, x2, y1, y2)]

\* The pixel of a rows x cols array at row-major position e.
Coord(e, cols) == <<e \div cols, e % cols>>

SmallValues == {-1, 0, 2}

\* Small frames: every shape up to MaxSmallDim, two pixels written down.
SmallFrame(f) ==
    \E rows \in binning..MaxSmallDim, cols \in binning..MaxSmallDim :
      \E p \in 0..(rows * cols - 1) :
        \E q \in p..(rows * cols - 1) :
          \E px \in [{Coord(p, cols), Coord(q, cols)} -> SmallValues] :
            f = Frame(rows, cols, px)

\* Full-size frames: black but for one bright pixel.
BigShapes == {<<603, 603>>, <<606, 9>>, <<9, 1200>>}
BigRows == {0, 299, 300, 301, 302, 303, 304, 599, 602, 605, 900, 1199}
FewRows == {0, 4, 300}

BigFrame(f) ==
    \E s \in BigShapes :
      \E r \in {x \in (IF s[2] > 9 THEN FewRows ELSE BigRows) : x < s[1]} :
        \E c \in {x \in (IF s[1] > 9 THEN FewRows ELSE BigRows) : x < s[2]} :
          f = Frame(s[1], s[2], [p \in {<<r, c>>} |-> 1000])

FindIdle ==
    /\ data = Frame(1, 1, <<>>)
    /\ cropped = NoResult

FindInputs ==
    /\ SmallFrame(data) \/ BigFrame(data)
    /\ cropped = NoResult

FindPlanet ==
    /\ cropped.status = "pending"
    /\ cropped' = find_planet(data)
    /\ UNCHANGED data
    /\ UNCHANGED <<settingsVars, scaleVars, jpgVars>>

(***************************************************************************)
(* PIL.Image, as far as its mode and size go.  An image is its mode, its    *)
(* size (width, height) and, for each band, the index in filenames of the   *)
(* file the band was made from.                                             *)
(***************************************************************************)
Abs(x) == IF x < 0 THEN -x ELSE x

\* Image.fromarray of a uint8 array of shape (rows, cols) or (rows, cols, k):
\* the size is (shape[1], shape[0]); the mode follows the number of bands,
\* and no mode exists for five or more.
fromarray(rows, cols, bands) ==
    IF Len(bands) > 4 THEN [status |-> "TypeError"]
    ELSE [status |-> "ok",
          mode |-> <<"L", "LA", "RGB", "RGBA">>[Len(bands)],
          width |-> cols, height |-> rows, bands |-> bands]

\* round_aspect(number, key) in Image.thumbnail is
\* max(min(floor(number), ceil(number), key=key), 1), where min keeps the
\* first of two candidates with equal keys.  For the new width, number is
\* y * aspect = y*w/h and key(n) = abs(aspect - n/y), that is
\* abs(w*y - n*h) / (h*y).
round_aspect_width(y, w, h) ==
    LET lo == (y * w) \div h
        hi == IF (y * w) % h = 0 THEN lo ELSE lo + 1
        best == IF Abs(w * y - lo * h) <= Abs(w * y - hi * h) THEN lo ELSE hi
    IN  IF best > 1 THEN best ELSE 1

\* For the new height, number is x / aspect = x*h/w and key(n) is 0 for
\* n = 0 and abs(aspect - x/n), that is abs(w*n - x*h) / (h*n), otherwise.
round_aspect_height(x, w, h) ==
    LET lo == (x * h) \div w
        hi == IF (x * h) % w = 0 THEN lo ELSE lo + 1
        best == IF lo = 0 \/ Abs(w * lo - x * h) * hi <= Abs(w * hi - x * h) * lo
                THEN lo ELSE hi
    IN  IF best > 1 THEN best ELSE 1

\* Image.thumbnail(size) with size = (x, y): nothing when the image already
\* fits in x by y; otherwise the image is resized to the size that keeps the
\* aspect ratio width / height and fits.  The division by a height of 0
\* raises ZeroDivisionError, the resize of an image without columns ValueError.
thumbnail(image, size) ==
    LET x == size[1]
        y == size[2]
        w == image.width
        h == image.height
    IN  IF x >= w /\ y >= h THEN image
        ELSE IF h = 0 THEN [status |-> "ZeroDivisionError"]
        ELSE IF w = 0 THEN [status |-> "ValueError"]
        ELSE IF x * h >= w * y
             THEN [image EXCEPT !.width = round_aspect_width(y, w, h), !.height = y]
             ELSE [image EXCEPT !.width = x, !.height = round_aspect_height(x, w, h)]

(***************************************************************************)
(* stack_images and planet_image_to_jpg                                     *)
(***************************************************************************)
zoom_limit == 600

MaxFiles == 4

\* stack_images(images_to_stack): np.dstack raises ValueError unless all the
\* arrays have one shape; the arrays become the bands, in the order of the list.
stack_images(images_to_stack) ==
    LET first == images_to_stack[1].frame
    IN  IF \E i \in 1..Len(images_to_stack) :
              Shape(images_to_stack[i].frame) # Shape(first)
        THEN [status |-> "ValueError"]
        ELSE fromarray(first.rows, first.cols,
                       [i \in 1..Len(images_to_stack) |-> images_to_stack[i].src])

\* The FITS files of the model: 603 x 3 and 3 x 603 frames, black but for
\* one pixel.
File(object, filter, rows, cols, r, c, v) ==
    [object |-> object, FILTER |-> filter,
     img |-> Frame(rows, cols, [p \in {<<r, c>>} |-> v])]

Files ==
    {File(jupiter, <<"V">>, 603, 3, 301, 1, 10000),
     File(<<"M", "a", "r", "s">>, <<"R">>, 603, 3, 0, 1, 10000),
     File(uranus, <<"B">>, 603, 3, 450, 1, 400),
     File(saturn, h_alpha, 3, 603, 1, 301, 40000)}

Sizes == {300, zoom_limit, zoom_limit + 1, 1200}

JpgIdle ==
    /\ filenames = <<>>
    /\ params = [height |-> 0, width |-> 0]
    /\ pc = "idle"
    /\ zoom = FALSE
    /\ stack = <<>>
    /\ img = NoResult
    /\ error = "none"
    /\ output_path = NoResult

JpgInputs ==
    /\ \E k \in 0..MaxFiles : filenames \in [1..k -> Files]
    /\ params \in [height : Sizes, width : Sizes]
    /\ pc = "start"
    /\ zoom = FALSE
    /\ stack = <<>>
    /\ img = NoResult
    /\ error = "none"
    /\ output_path = NoResult

Raise(exception) ==
    /\ pc' = "raised"
    /\ error' = exception

\* Lines 82-88 and 98: max_size, zoom and the branch on len(filenames).  With
\* neither branch taken the body goes on to line 104 with img unbound.
Start ==
    /\ pc = "start"
    /\ zoom' = (params.height <= zoom_limit /\ params.width <= zoom_limit)
    /\ pc' = IF Len(filenames) >= 3 THEN "for"
             ELSE IF Len(filenames) = 1 THEN "single"
             ELSE "thumbnail"
    /\ UNCHANGED <<filenames, params, stack, img, error, output_path>>
    /\ UNCHANGED <<settingsVars, scaleVars, findVars>>

\* Lines 89-94: one pass of the loop over filenames.
LoadNext ==
    /\ pc = "for"
    /\ Len(stack) < Len(filenames)
    /\ LET i == Len(stack) + 1
           scaled == planet_image_data(filenames[i], TRUE)
           found == find_planet(scaled.frame)
       IN  IF ~zoom
           THEN /\ stack' = Append(stack, [src |-> i, frame |-> scaled.frame])
                /\ UNCHANGED <<pc, error>>
           ELSE IF found.status = "ok"
           THEN /\ stack' = Append(stack, [src |-> i, frame |-> found.frame])
                /\ UNCHANGED <<pc, error>>
           ELSE /\ Raise(found.status)
                /\ UNCHANGED stack
    /\ UNCHANGED <<filenames, params, zoom, img, output_path>>
    /\ UNCHANGED <<settingsVars, scaleVars, findVars>>

\* Lines 95-96: img = stack_images(stack); the image img.convert('RGB')
\* returns is dropped.
StackImages ==
    /\ pc = "for"
    /\ Len(stack) = Len(filenames)
    /\ LET image == stack_images(stack)
       IN  IF image.status = "ok"
           THEN /\ img' = image
                /\ pc' = "thumbnail"
                /\ UNCHANGED error
           ELSE /\ Raise(image.status)
                /\ UNCHANGED img
    /\ UNCHANGED <<filenames, params, zoom, stack, output_path>>
    /\ UNCHANGED <<settingsVars, scaleVars, findVars>>

\* Lines 99-102: the branch of one filename.
LoadSingle ==
    /\ pc = "single"
    /\ LET scaled == planet_image_data(filenames[1], FALSE)
           found == find_planet(scaled.frame)
       IN  IF ~zoom
           THEN /\ img' = fromarray(scaled.frame.rows, scaled.frame.cols, <<1>>)
                /\ pc' = "thumbnail"
                /\ UNCHANGED error
           ELSE IF found.status = "ok"
           THEN /\ img' = fromarray(found.frame.rows, found.frame.cols, <<1>>)
                /\ pc' = "thumbnail"
                /\ UNCHANGED error
           ELSE /\ Raise(found.status)
                /\ UNCHANGED img
    /\ UNCHANGED <<filenames, params, zoom, stack, output_path>>
    /\ UNCHANGED <<settingsVars, scaleVars, findVars>>

\* Line 104: img.thumbnail(max_size), max_size = (height, width).
Thumbnail ==
    /\ pc = "thumbnail"
    /\ IF img.status = "pending"
       THEN /\ Raise("UnboundLocalError")
            /\ UNCHANGED img
       ELSE LET image == thumbnail(img, <<params.height, params.width>>)
            IN  IF image.status = "ok"
                THEN /\ img' = image
                     /\ pc' = "save"
                     /\ UNCHANGED error
                ELSE /\ Raise(image.status)
                     /\ UNCHANGED img
    /\ UNCHANGED <<filenames, params, zoom, stack, output_path>>
    /\ UNCHANGED <<settingsVars, scaleVars, findVars>>

\* Lines 105-106: img.save(output_path), a JPEG.  An image without pixels
\* cannot be written as a JPEG (ValueError), nor can one with an alpha band
\* (OSError).
Save ==
    /\ pc = "save"
    /\ IF img.width = 0 \/ img.height = 0
       THEN /\ Raise("ValueError")
            /\ UNCHANGED output_path
       ELSE IF img.mode \in {"LA", "RGBA"}
       THEN /\ Raise("OSError")
            /\ UNCHANGED output_path
       ELSE /\ output_path' = img
            /\ pc' = "done"
            /\ UNCHANGED error
    /\ UNCHANGED <<filenames, params, zoom, stack, img>>
    /\ UNCHANGED <<settingsVars, scaleVars, findVars>>

JpgNext == Start \/ LoadNext \/ StackImages \/ LoadSingle \/ Thumbnail \/ Save

SettingsInit == SettingsInputs /\ ScaleIdle /\ FindIdle /\ JpgIdle
ScaleInit == SettingsIdle /\ ScaleInputs /\ FindIdle /\ JpgIdle
FindInit == SettingsIdle /\ ScaleIdle /\ FindInputs /\ JpgIdle
JpgInit == SettingsIdle /\ ScaleIdle /\ FindIdle /\ JpgInputs

SpecSettings == SettingsInit /\ [][SettingsNew]_vars
SpecScale == ScaleInit /\ [][PlanetImageData]_vars
SpecFind == FindInit /\ [][FindPlanet]_vars
SpecJpg == JpgInit /\ [][JpgNext]_vars

\* The module as a whole: any one of its entry points is called.
Init == SettingsInit \/ ScaleInit \/ FindInit \/ JpgInit
Next == SettingsNew \/ PlanetImageData \/ FindPlanet \/ JpgNext
Spec == Init /\ [][Next]_vars

(***************************************************************************)
(* The properties.                                                          *)
(***************************************************************************)
Whitespace == {" ", "\t", "\n"}

RECURSIVE LeadingCommas(_)
LeadingCommas(s) ==
    IF s # <<>> /\ Head(s) = "," THEN 1 + LeadingCommas(Tail(s)) ELSE 0

RECURSIVE TrailingCommas(_)
TrailingCommas(s) ==
    IF s # <<>> /\ s[Len(s)] = ","
    THEN 1 + TrailingCommas(SubSeq(s, 1, Len(s) - 1)) ELSE 0

\* s without its leading and trailing commas.
Core(s) ==
    IF LeadingCommas(s) = Len(s) THEN <<>>
    ELSE SubSeq(s, LeadingCommas(s) + 1, Len(s) - TrailingCommas(s))

RECURSIVE JoinComma(_)
\* ','.join(t)
JoinComma(t) ==
    IF Len(t) = 1 THEN t[1]
    ELSE t[1] \o <<",">> \o JoinComma(Tail(t))

RECURSIVE Concat(_)
Concat(t) == IF t = <<>> THEN <<>> ELSE Head(t) \o Concat(Tail(t))

\* The string a list-valued key is read from: the environment variable when
\* it is set, the default otherwise.
ListSource(key) == getenv(environ, key, Default(key)).v

\* The elements are the pieces of the string between its commas: joined
\* again by commas they give the string, and none holds a comma.
SplitsTo(t, s) ==
    /\ Len(t) >= 1
    /\ JoinComma(t) = s
    /\ \A i \in 1..Len(t) : \A j \in 1..Len(t[i]) : t[i][j] # ","

\* C8 as amended: the tuple of a list-valued key is its string with the leading
\* and trailing commas stripped, then every space character ' ' removed (tabs
\* and newlines stay), then split on commas; no element holds a space.
C8_TupleWithoutSpaces ==
    ConstructedSettings =>
        \A key \in ListKeys :
            /\ settings[key].t = "tuple"
            /\ SplitsTo(settings[key].v,
                        SelectSeq(Core(ListSource(key)), LAMBDA c : c # " "))
            /\ \A i \in 1..Len(settings[key].v) :
                 \A j \in 1..Len(settings[key].v[i]) : settings[key].v[i][j] # " "

\* A list-valued key read from a string with a space, a tab and a comma.
C8_Witness ==
    /\ ConstructedSettings
    /\ \E key \in ListKeys :
         /\ key \in DOMAIN environ
         /\ \A c \in {" ", "\t", ","} :
              \E i \in 1..Len(environ[key].v) : environ[key].v[i] = c
         /\ Len(settings[key].v) = 2

\* C8 as stated: the tuple of a list-valued key is its string with the leading
\* and trailing commas stripped, then all whitespace (spaces, tabs, newlines)
\* removed, then split on commas; no element holds a whitespace character.
C8_TupleWithoutWhitespace ==
    ConstructedSettings =>
        \A key \in ListKeys :
            /\ SplitsTo(settings[key].v,
                        SelectSeq(Core(ListSource(key)), LAMBDA c : c \notin Whitespace))
            /\ \A i \in 1..Len(settings[key].v) :
                 \A j \in 1..Len(settings[key].v[i]) :
                    settings[key].v[i][j] \notin Whitespace

\* The value a key is to be resolved from: the override when the key is in
\* the override mapping, else the environment variable when set, else the default.
Precedence(key) ==
    IF key \in DOMAIN settings_arg THEN settings_arg[key]
    ELSE IF key \in DOMAIN environ THEN environ[key]
    ELSE Default(key)

\* What is left of a string without its commas and whitespace.
Letters(s) == SelectSeq(s, LAMBDA c : c \notin Whitespace \cup {","})

\* C6: every key, the list-valued keys included, is resolved from the override
\* mapping when the key is there, otherwise from the environment variable
\* when it is set, otherwise from the default.
C6_OverrideEnvDefault ==
    ConstructedSettings =>
        /\ \A key \in PlainKeys : Same(settings[key], Precedence(key))
        /\ \A key \in PathKeys :
             settings[key].v \in {Precedence(key).v, Precedence(key).v \o <<"/">>}
        /\ \A key \in ListKeys :
             Letters(Concat(settings[key].v)) = Letters(Precedence(key).v)

EndsWithOneSlash(s) ==
    /\ Len(s) >= 1
    /\ s[Len(s)] = "/"
    /\ Len(s) >= 2 => s[Len(s) - 1] # "/"

\* C7: ARCHIVE_API_URL and TMP_DIR end with exactly one '/', whatever string
\* they are resolved from, and normalizing them again changes nothing.
C7_ExactlyOneSlash ==
    ConstructedSettings =>
        \A key \in PathKeys :
            /\ EndsWithOneSlash(settings[key].v)
            /\ Same(end_with_slash(settings[key]), settings[key])

\* C2: planet is 5.0 for saturn, 1.4 for jupiter, 5.0 for mars, 0.5 for uranus
\* and 1.0 otherwise (names compared in lower case); for uranus n is 1.5 with
\* filter "B" and 1.0 otherwise; for the others n is 1.1 when colour holds and
\* the filter in lower case is "h-alpha" or the filter is "V", and 1.0 otherwise.
C2_MultiplierTable ==
    vals.status = "ok" =>
        LET target == lower(hdul.object)
            gain == colour /\ (lower(hdul.FILTER) = h_alpha \/ hdul.FILTER = <<"V">>)
        IN  /\ target = saturn => vals.planet = 50
            /\ target = jupiter => vals.planet = 14
            /\ target = mars => vals.planet = 50
            /\ target = uranus => vals.planet = 5
            /\ target \notin {saturn, jupiter, mars, uranus} => vals.planet = 10
            /\ target = uranus /\ hdul.FILTER = <<"B">> => vals.n = 15
            /\ target = uranus /\ hdul.FILTER # <<"B">> => vals.n = 10
            /\ target # uranus /\ gain => vals.n = 11
            /\ target # uranus /\ ~gain => vals.n = 10

\* Uranus in capitals, filter V, colour: the gain 1.1 has been reset.
C2_Witness ==
    /\ vals.status = "ok"
    /\ hdul.object = <<"U", "R", "A", "N", "U", "S">>
    /\ hdul.FILTER = <<"V">>
    /\ colour
    /\ vals.n = 10
    /\ vals.planet = 5

\* The window along one axis of length len, for the peak at t = 3i: n pixels
\* from pixel first on.  Away from both ends it is the 600 pixels t-300 ..
\* t+299; anywhere else it is shorter, and it is empty when the peak is in
\* the first 300 pixels of an axis of 600 or more.
WindowOnAxis(len, t, n, first) ==
    /\ (half_window <= t /\ t + half_window <= len)
          => (n = 2 * half_window /\ first = t - half_window)
    /\ ~(half_window <= t /\ t + half_window <= len) => n < 2 * half_window
    /\ (t < half_window /\ len >= 2 * half_window) => n = 0

BlockSum(f, i, j) ==
    LET row(r) == PixelAt(f, r, 3 * j) + PixelAt(f, r, 3 * j + 1) + PixelAt(f, r, 3 * j + 2)
    IN  row(3 * i) + row(3 * i + 1) + row(3 * i + 2)

\* The first index, in row-major order, of the greatest block of f.
FirstBrightestBlock(f) ==
    LET blocks == (0..(f.rows \div 3 - 1)) \X (0..(f.cols \div 3 - 1))
        top == Max({BlockSum(f, e[1], e[2]) : e \in blocks})
    IN  CHOOSE e \in blocks :
            /\ BlockSum(f, e[1], e[2]) = top
            /\ \A i \in 0..e[1] : \A j \in 0..(f.cols \div 3 - 1) :
                 (i < e[1] \/ j < e[2]) => BlockSum(f, i, j) # top

\* C9: on every frame with both dimensions at least 3 the peak search succeeds,
\* and the peak is the first index in row-major order of the greatest mean
\* over the 3 x 3 blocks of the frame cut to multiples of 3.
C9_PeakFound ==
    (cropped.status # "pending" /\ data.rows >= 3 /\ data.cols >= 3) =>
        /\ cropped.status = "ok"
        /\ cropped.max_coord = FirstBrightestBlock(data)

Terminated == pc \in {"done", "raised"}

\* C3: the saved image is no higher than the requested height, no wider than
\* the requested width, and in neither dimension larger than before resizing.
C3_ThumbnailWithinRequest ==
    [][(pc = "thumbnail" /\ pc' = "save") =>
          /\ img'.height <= params.height
          /\ img'.width <= params.width
          /\ img'.height <= img.height
          /\ img'.width <= img.width]_vars

\* C4: a call with 0 or 2 filenames ends in an error raised for the count of
\* images, and writes nothing.
C4_UnsupportedCountRejected ==
    (Terminated /\ Len(filenames) \in {0, 2}) =>
        /\ pc = "raised"
        /\ error \notin {"none", "UnboundLocalError"}
        /\ output_path = NoResult

\* C5: with 3 or more filenames only the first 3 are loaded, and the image
\* handed to the resize step has the 3 bands R, G, B made from filenames[0],
\* [1], [2] in this order.
C5_FirstThreeAsRGB ==
    Len(filenames) >= 3 =>
        /\ Len(stack) <= 3
        /\ pc \in {"thumbnail", "save", "done"} =>
             (img.mode = "RGB" /\ img.bands = <<1, 2, 3>>)

\* C10: with 3 filenames of one common frame shape and zoom, the three cropped
\* frames handed to stack_images have one shape.
C10_CropsShareShape ==
    (/\ pc = "for"
     /\ zoom
     /\ Len(filenames) = 3
     /\ Len(stack) = 3
     /\ \A i \in 1..3 : Shape(filenames[i].img) = Shape(filenames[1].img))
        => \A i \in 1..3 : Shape(stack[i].frame) = Shape(stack[1].frame)

====
